---- MODULE Spec2Model ----
(***************************************************************************)
(* Model of supervised/benchmark.py: the command-line entry point, the     *)
(* train_and_evaluate orchestration function and the Model wrapper class.  *)
(* Strings are sequences of one-character strings so that str.upper() is   *)
(* modelled by what it does to each character.                             *)
(***************************************************************************)
EXTENDS Integers, Sequences, FiniteSets, TLC

(* ---------------------------- bounds ---------------------------------- *)

\* number of leading characters of a name whose case is varied freely
MaxMix == 2
\* largest batch handed to a step callback
MaxBatch == 2

(* ---------------------------- strings --------------------------------- *)

LowerChars == <<"a","b","c","d","e","f","g","h","i","j","k","l","m",
                "n","o","p","q","r","s","t","u","v","w","x","y","z">>

UpperChars == <<"A","B","C","D","E","F","G","H","I","J","K","L","M",
                "N","O","P","Q","R","S","T","U","V","W","X","Y","Z">>

UpperChar(c) ==
    IF \E i \in 1..26 : LowerChars[i] = c
    THEN UpperChars[CHOOSE i \in 1..26 : LowerChars[i] = c]
    ELSE c

LowerChar(c) ==
    IF \E i \in 1..26 : UpperChars[i] = c
    THEN LowerChars[CHOOSE i \in 1..26 : UpperChars[i] = c]
    ELSE c

\* a plausible slip: the argument is looked up as typed
upper_identity(s) == s

\* str.upper()
upper(s) == [i \in 1..Len(s) |-> UpperChar(s[i])]

(* ------------------------- the enumerations --------------------------- *)

LINEAR == <<"L","I","N","E","A","R">>
DNN == <<"D","N","N">>
CNN == <<"C","N","N">>
SLIM == <<"S","L","I","M">>
HIGHWAY_NETWORK == <<"H","I","G","H","W","A","Y","_","N","E","T","W","O","R","K">>
RESNET == <<"R","E","S","N","E","T">>

\* algorithm.Algorithm, a member being identified with its name
Algorithm == <<LINEAR, DNN, CNN, SLIM, HIGHWAY_NETWORK, RESNET>>

MNIST == <<"M","N","I","S","T">>
CIFAR10 == <<"C","I","F","A","R","1","0">>

\* dataset.Dataset, a member being identified with its name
Dataset == <<MNIST, CIFAR10>>

\* an identifier with a name that train_and_evaluate does not dispatch on
UNDISPATCHED == <<"G","A","N">>

Range(f) == {f[i] : i \in DOMAIN f}

\* [m.name for m in enum]
Names(enum) == [i \in 1..Len(enum) |-> enum[i]]

\* a plausible slip: any key is accepted and yields the first member
EnumLookup_first(enum, key) == [ok |-> TRUE, member |-> enum[1]]

\* enum[key]: the member of that name, or KeyError
EnumLookup(enum, key) ==
    IF key \in Range(enum)
    THEN [ok |-> TRUE, member |-> key]
    ELSE [ok |-> FALSE, member |-> <<>>]

(* --------------------- command-line arguments ------------------------- *)

Min(a, b) == IF a < b THEN a ELSE b

\* the name n with the positions in P in lower case
MixOf(n, P) == [i \in 1..Len(n) |-> IF i \in P THEN LowerChar(n[i]) ELSE n[i]]

\* n with any of its first MaxMix characters in lower case, and n all in lower case
Mixes(n) ==
    {MixOf(n, P) : P \in SUBSET (1..Min(MaxMix, Len(n)))}
        \cup {MixOf(n, 1..Len(n))}

\* strings that are no member name in any case
Junk == { <<>>,
          <<"N","O","T","A","R","E","A","L","S","E","T">>,
          <<"d","n","n"," ">>,
          <<"M","N","I","S","T","1">> }

ArgStrings ==
    UNION {Mixes(n) : n \in Range(Algorithm) \cup Range(Dataset)} \cup Junk

(* ------------------------------ state --------------------------------- *)

VARIABLES
    pc,               \* the position of the run
    entry,            \* "main": the script; "call": train_and_evaluate called
                      \* as a function; "model": the Model class used alone
    args,             \* the parsed command line
    dset, algo,       \* the members resolved by the script (<<>>: not yet)
    p,                \* the parameters of train_and_evaluate
    error,            \* the exception that ended the run
    exitCode,         \* the exit status of the script (-1: still running)
    loaded,           \* the arguments dataset.train_test was called with
    split,            \* what dataset.train_test returned
    calls,            \* the calls made to the collaborators, in order
    objects,          \* the objects constructed; an object's id is its index
    model,            \* local `model` (0: unbound)
    lightning_model,  \* local `lightning_model` (0: unbound)
    returned,         \* the value train_and_evaluate returned (0: none)
    anomaly,          \* torch's anomaly-detection mode
    context,          \* local `context`
    pending,          \* the exception raised inside the with block
    lastStep          \* the latest step callback and what it logged

vars == <<pc, entry, args, dset, algo, p, error, exitCode, loaded, split, calls,
          objects, model, lightning_model, returned, anomaly, context, pending,
          lastStep>>

NoError == [kind |-> "None", what |-> "", input |-> <<>>, names |-> <<>>]

\* a plausible slip: the lookup's own KeyError re-raised, without the message
KeyError_bare(what, input, names) ==
    [kind |-> "KeyError", what |-> what, input |-> upper(input), names |-> <<>>]

\* KeyError('Invalid <what> (%s), must be in %s' % (input, names))
KeyError(what, input, names) ==
    [kind |-> "KeyError", what |-> what, input |-> input, names |-> names]

\* NotImplementedError('Algorithm not implemented: %s' % algo.name)
NotImplemented(a) ==
    [kind |-> "NotImplementedError", what |-> "algorithm", input |-> a, names |-> <<>>]

\* whatever a collaborator raises, tagged with the call that raised it
External(fn) == [kind |-> "External", what |-> fn, input |-> <<>>, names |-> <<>>]

NoHyper == [name |-> "", value |-> 0]

NoSplit == [dimensions |-> 0, labels |-> 0]

\* the (dimensions, labels) dataset.train_test may return
Splits == {[dimensions |-> 784, labels |-> 10], [dimensions |-> 3072, labels |-> 100]}

Init ==
    /\ pc = "start"
    /\ entry = ""
    /\ args = [dataset |-> <<>>, algorithm |-> <<>>, augment |-> FALSE, debug |-> FALSE]
    /\ dset = <<>>
    /\ algo = <<>>
    /\ p = [algo |-> <<>>, dset |-> <<>>, augment |-> FALSE, debug |-> FALSE]
    /\ error = NoError
    /\ exitCode = -1
    /\ loaded = [dset |-> <<>>, augment |-> FALSE]
    /\ split = NoSplit
    /\ calls = <<>>
    /\ objects = <<>>
    /\ model = 0
    /\ lightning_model = 0
    /\ returned = 0
    /\ anomaly = FALSE
    /\ context = [kind |-> "", prev |-> FALSE]
    /\ pending = NoError
    /\ lastStep = [fn |-> "", logged |-> <<>>, ret |-> <<>>]

\* an uncaught exception: the script dies with status 1, a caller receives it
Raise(e) ==
    /\ error' = e
    /\ pc' = IF entry = "main" THEN "exit" ELSE "raised"
    /\ exitCode' = IF entry = "main" THEN 1 ELSE exitCode

Call(fn, target) == calls' = Append(calls, [fn |-> fn, target |-> target])

(* ------------------------- the script (__main__) ----------------------- *)

\* parser.parse_args()
ParseArgs ==
    /\ pc = "start"
    /\ \E d \in ArgStrings, a \in ArgStrings, aug \in BOOLEAN, dbg \in BOOLEAN :
          args' = [dataset |-> d, algorithm |-> a, augment |-> aug, debug |-> dbg]
    /\ entry' = "main"
    /\ pc' = "resolve_dataset"
    /\ UNCHANGED <<dset, algo, p, error, exitCode, loaded, split, calls, objects,
                   model, lightning_model, returned, anomaly, context, pending,
                   lastStep>>

\* dset = dataset.Dataset[args.dataset.upper()], KeyError re-raised with a message
ResolveDataset ==
    /\ pc = "resolve_dataset"
    /\ LET r == EnumLookup(Dataset, upper(args.dataset)) IN
          IF r.ok
          THEN /\ dset' = r.member
               /\ pc' = "resolve_algorithm"
               /\ UNCHANGED <<error, exitCode>>
          ELSE /\ Raise(KeyError("dataset", args.dataset, Names(Dataset)))
               /\ UNCHANGED dset
    /\ UNCHANGED <<entry, args, algo, p, loaded, split, calls, objects, model,
                   lightning_model, returned, anomaly, context, pending,
                   lastStep>>

\* algo = algorithm.Algorithm[args.algorithm.upper()], likewise
ResolveAlgorithm ==
    /\ pc = "resolve_algorithm"
    /\ LET r == EnumLookup(Algorithm, upper(args.algorithm)) IN
          IF r.ok
          THEN /\ algo' = r.member
               /\ pc' = "call"
               /\ UNCHANGED <<error, exitCode>>
          ELSE /\ Raise(KeyError("algorithm", args.algorithm, Names(Algorithm)))
               /\ UNCHANGED algo
    /\ UNCHANGED <<entry, args, dset, p, loaded, split, calls, objects, model,
                   lightning_model, returned, anomaly, context, pending,
                   lastStep>>

\* train_and_evaluate(algo, dset, augment=args.augment, debug=args.debug, ...)
CallMain ==
    /\ pc = "call"
    /\ p' = [algo |-> algo, dset |-> dset, augment |-> args.augment, debug |-> args.debug]
    /\ pc' = "train_test"
    /\ UNCHANGED <<entry, args, dset, algo, error, exitCode, loaded, split, calls,
                   objects, model, lightning_model, returned, anomaly, context,
                   pending, lastStep>>

\* the script ends after train_and_evaluate has returned
MainExit ==
    /\ pc = "returned"
    /\ entry = "main"
    /\ pc' = "exit"
    /\ exitCode' = 0
    /\ UNCHANGED <<entry, args, dset, algo, p, error, loaded, split, calls, objects,
                   model, lightning_model, returned, anomaly, context, pending,
                   lastStep>>

\* train_and_evaluate called by other code, anomaly detection being on or off
DirectCall ==
    /\ pc = "start"
    /\ \E a \in Range(Algorithm) \cup {UNDISPATCHED}, d \in Range(Dataset),
          aug \in BOOLEAN, dbg \in BOOLEAN :
          p' = [algo |-> a, dset |-> d, augment |-> aug, debug |-> dbg]
    /\ anomaly' \in BOOLEAN
    /\ entry' = "call"
    /\ pc' = "train_test"
    /\ UNCHANGED <<args, dset, algo, error, exitCode, loaded, split, calls, objects,
                   model, lightning_model, returned, context, pending, lastStep>>

(* ------------------------- train_and_evaluate -------------------------- *)

\* an architecture of supervised.algorithm built with these arguments
Arch(cls, dimensions, labels, hyper) ==
    [cls |-> cls, dimensions |-> dimensions, labels |-> labels, hyper |-> hyper,
     wraps |-> 0]

\* a plausible slip: the depth of the next deep architecture pasted into DNN
Dispatch_pasted(a, dimensions, labels) ==
    IF a = LINEAR THEN Arch("Linear", dimensions, labels, NoHyper)
    ELSE IF a = DNN
    THEN Arch("DNN", dimensions, labels, [name |-> "num_layers", value |-> 100])
    ELSE IF a = CNN THEN Arch("CNN", dimensions, labels, NoHyper)
    ELSE IF a = SLIM THEN Arch("Slim", dimensions, labels, NoHyper)
    ELSE IF a = HIGHWAY_NETWORK
    THEN Arch("HighwayNetwork", dimensions, labels, [name |-> "num_layers", value |-> 100])
    ELSE IF a = RESNET
    THEN Arch("ResidualNetwork", dimensions, labels, [name |-> "n", value |-> 3])
    ELSE Arch("NotImplementedError", 0, 0, NoHyper)

\* the if/elif chain; cls "NotImplementedError" stands for the else branch
Dispatch(a, dimensions, labels) ==
    IF a = LINEAR THEN Arch("Linear", dimensions, labels, NoHyper)
    ELSE IF a = DNN
    THEN Arch("DNN", dimensions, labels, [name |-> "num_layers", value |-> 10])
    ELSE IF a = CNN THEN Arch("CNN", dimensions, labels, NoHyper)
    ELSE IF a = SLIM THEN Arch("Slim", dimensions, labels, NoHyper)
    ELSE IF a = SLIM THEN Arch("Slim", dimensions, labels, NoHyper)
    ELSE IF a = HIGHWAY_NETWORK
    THEN Arch("HighwayNetwork", dimensions, labels, [name |-> "num_layers", value |-> 100])
    ELSE IF a = RESNET
    THEN Arch("ResidualNetwork", dimensions, labels, [name |-> "n", value |-> 3])
    ELSE Arch("NotImplementedError", 0, 0, NoHyper)

\* a plausible slip: a model is built by default instead of the else branch's raise
Implemented_default(m) == TRUE

\* whether the chain bound `model` rather than reaching its else branch
Implemented(m) == m.cls # "NotImplementedError"

\* a plausible slip: contextlib.suppress(Exception)
Suppresses_all(ctx, e) == ctx.kind = "suppress"

\* whether the context manager's __exit__ swallows e: contextlib.suppress() is
\* given no exception class, detect_anomaly.__exit__ returns None
Suppresses(ctx, e) == ctx.kind = "suppress" /\ e.kind \in {}

\* a plausible slip: anomaly detection left on for the whole run
ContextFor_always(debug, enabled) == [kind |-> "detect_anomaly", prev |-> enabled]

\* torch.autograd.detect_anomaly() if debug else contextlib.suppress();
\* detect_anomaly.__init__ records the mode that is on when it is created
ContextFor(debug, enabled) ==
    IF debug
    THEN [kind |-> "detect_anomaly", prev |-> enabled]
    ELSE [kind |-> "suppress", prev |-> FALSE]

\* a plausible slip: the wrapper is returned
ReturnValue_wrapper(m, lm) == lm

\* return model
ReturnValue(m, lm) == m

\* train, test, dimensions, labels = dataset.train_test(dset, augment=augment)
TrainTest ==
    /\ pc = "train_test"
    /\ Call("train_test", 0)
    /\ loaded' = [dset |-> p.dset, augment |-> p.augment]
    /\ \/ /\ split' \in Splits
          /\ pc' = "dispatch"
          /\ UNCHANGED <<error, exitCode>>
       \/ /\ Raise(External("train_test"))
          /\ UNCHANGED split
    /\ UNCHANGED <<entry, args, dset, algo, p, objects, model, lightning_model,
                   returned, anomaly, context, pending, lastStep>>

\* the if/elif chain: one constructor call, or NotImplementedError
Construct ==
    /\ pc = "dispatch"
    /\ LET m == Dispatch(p.algo, split.dimensions, split.labels) IN
          IF Implemented(m)
          THEN /\ Call(m.cls, Len(objects) + 1)
               /\ \/ /\ objects' = Append(objects, m)
                     /\ model' = Len(objects) + 1
                     /\ pc' = "wrap"
                     /\ UNCHANGED <<error, exitCode>>
                  \/ /\ Raise(External(m.cls))
                     /\ UNCHANGED <<objects, model>>
          ELSE /\ Raise(NotImplemented(p.algo))
               /\ UNCHANGED <<calls, objects, model>>
    /\ UNCHANGED <<entry, args, dset, algo, p, loaded, split, lightning_model,
                   returned, anomaly, context, pending, lastStep>>

\* lightning_model = Model(model)
Wrap ==
    /\ pc = "wrap"
    /\ objects' = Append(objects, [Arch("Model", 0, 0, NoHyper) EXCEPT !.wraps = model])
    /\ lightning_model' = Len(objects) + 1
    /\ pc' = "trainer"
    /\ UNCHANGED <<entry, args, dset, algo, p, error, exitCode, loaded, split, calls,
                   model, returned, anomaly, context, pending, lastStep>>

\* trainer = pl.Trainer(gpus=1, precision=16)
MakeTrainer ==
    /\ pc = "trainer"
    /\ Call("Trainer", 0)
    /\ \/ /\ pc' = "train_loader"
          /\ UNCHANGED <<error, exitCode>>
       \/ Raise(External("Trainer"))
    /\ UNCHANGED <<entry, args, dset, algo, p, loaded, split, objects, model,
                   lightning_model, returned, anomaly, context, pending, lastStep>>

\* train_loader = data.DataLoader(train, **kwargs)
MakeTrainLoader ==
    /\ pc = "train_loader"
    /\ Call("DataLoader(train)", 0)
    /\ \/ /\ pc' = "test_loader"
          /\ UNCHANGED <<error, exitCode>>
       \/ Raise(External("DataLoader(train)"))
    /\ UNCHANGED <<entry, args, dset, algo, p, loaded, split, objects, model,
                   lightning_model, returned, anomaly, context, pending, lastStep>>

\* test_loader = data.DataLoader(test, batch_size=1024); torch.set_printoptions(...)
MakeTestLoader ==
    /\ pc = "test_loader"
    /\ Call("DataLoader(test)", 0)
    /\ \/ /\ pc' = "context"
          /\ UNCHANGED <<error, exitCode>>
       \/ Raise(External("DataLoader(test)"))
    /\ UNCHANGED <<entry, args, dset, algo, p, loaded, split, objects, model,
                   lightning_model, returned, anomaly, context, pending, lastStep>>

\* context = ... ; with context: (the context manager's __enter__)
EnterContext ==
    /\ pc = "context"
    /\ context' = ContextFor(p.debug, anomaly)
    /\ anomaly' = IF context'.kind = "detect_anomaly" THEN TRUE ELSE anomaly
    /\ pc' = "fit"
    /\ UNCHANGED <<entry, args, dset, algo, p, error, exitCode, loaded, split, calls,
                   objects, model, lightning_model, returned, pending, lastStep>>

\* trainer.fit(lightning_model, train_loader), which returns or raises
Fit ==
    /\ pc = "fit"
    /\ Call("fit", lightning_model)
    /\ \/ pending' = NoError
       \/ pending' = External("fit")
    /\ pc' = "exit_context"
    /\ UNCHANGED <<entry, args, dset, algo, p, error, exitCode, loaded, split,
                   objects, model, lightning_model, returned, anomaly, context,
                   lastStep>>

\* the end of the with block: __exit__ restores the mode, the exception goes on
ExitContext ==
    /\ pc = "exit_context"
    /\ anomaly' = IF context.kind = "detect_anomaly" THEN context.prev ELSE anomaly
    /\ pending' = NoError
    /\ IF pending.kind # "None" /\ ~Suppresses(context, pending)
       THEN Raise(pending)
       ELSE /\ pc' = "test"
            /\ UNCHANGED <<error, exitCode>>
    /\ UNCHANGED <<entry, args, dset, algo, p, loaded, split, calls, objects, model,
                   lightning_model, returned, context, lastStep>>

\* a plausible slip: the evaluation left out
Test_skipped ==
    /\ pc = "test"
    /\ pc' = "return"
    /\ UNCHANGED <<entry, args, dset, algo, p, error, exitCode, loaded, split, calls,
                   objects, model, lightning_model, returned, anomaly, context,
                   pending, lastStep>>

\* trainer.test(lightning_model, test_loader)
Test ==
    /\ pc = "test"
    /\ Call("test", lightning_model)
    /\ \/ /\ pc' = "return"
          /\ UNCHANGED <<error, exitCode>>
       \/ Raise(External("test"))
    /\ UNCHANGED <<entry, args, dset, algo, p, loaded, split, objects, model,
                   lightning_model, returned, anomaly, context, pending, lastStep>>

\* return model
Return ==
    /\ pc = "return"
    /\ returned' = ReturnValue(model, lightning_model)
    /\ pc' = "returned"
    /\ UNCHANGED <<entry, args, dset, algo, p, error, exitCode, loaded, split, calls,
                   objects, model, lightning_model, anomaly, context, pending,
                   lastStep>>

(* --------------------------- the Model class --------------------------- *)

\* the rows self.model(x) may produce: one score per class, two classes
Logits == {<<0, 1>>, <<1, 0>>, <<1, 1>>}

\* an example of a batch: the wrapped model's output for it, and its label
Examples == [out : Logits, y : 1..2]

\* the batches (x, y) a trainer hands to a step callback
Batches == UNION {[1..n -> Examples] : n \in 1..MaxBatch}

\* forward: F.log_softmax(self.model(x), dim=1), kept as a term over the outputs
forward(batch) == [op |-> "log_softmax", arg |-> [i \in DOMAIN batch |-> batch[i].out]]

\* F.nll_loss(y_hat, y), kept as a term
nll_loss(y_hat, y) == [op |-> "nll_loss", input |-> y_hat, target |-> y]

\* torch.argmax(y_hat, dim=1): log_softmax keeps the order of a row's scores
argmax(y_hat) ==
    [i \in DOMAIN y_hat.arg |->
        CHOOSE k \in 1..2 :
            /\ \A j \in 1..2 : y_hat.arg[i][k] >= y_hat.arg[i][j]
            /\ \A j \in 1..(k - 1) : y_hat.arg[i][j] < y_hat.arg[i][k]]

\* (pred == y).float().mean(), as the fraction num/den
accuracy(pred, y) ==
    [op |-> "mean", num |-> Cardinality({i \in DOMAIN y : pred[i] = y[i]}),
     den |-> Len(y)]

Targets(batch) == [i \in DOMAIN batch |-> batch[i].y]

Logged(name, value) == [name |-> name, value |-> value]

\* training_step: what it logs and returns
training_step(batch) ==
    LET y == Targets(batch)
        y_hat == forward(batch)
        loss == nll_loss(y_hat, y)
    IN  [fn |-> "training_step",
         logged |-> <<Logged("train_loss", loss)>>,
         ret |-> <<"loss">>]

\* validation_step
validation_step(batch) ==
    LET y == Targets(batch)
        y_hat == forward(batch)
        loss == nll_loss(y_hat, y)
        acc == accuracy(argmax(y_hat), y)
    IN  [fn |-> "validation_step",
         logged |-> <<Logged("val_loss", loss), Logged("val_acc", acc)>>,
         ret |-> <<"val_loss", "val_acc">>]

\* a plausible slip: test_step copied from training_step
test_step_lossonly(batch) ==
    LET y == Targets(batch)
        y_hat == forward(batch)
        loss == nll_loss(y_hat, y)
    IN  [fn |-> "test_step",
         logged |-> <<Logged("test_loss", loss)>>,
         ret |-> <<"test_loss">>]

\* test_step
test_step(batch) ==
    LET y == Targets(batch)
        y_hat == forward(batch)
        loss == nll_loss(y_hat, y)
        acc == accuracy(argmax(y_hat), y)
    IN  [fn |-> "test_step",
         logged |-> <<Logged("test_loss", loss), Logged("test_acc", acc)>>,
         ret |-> <<"test_loss", "test_acc">>]

\* Model(model) built around some architecture, outside train_and_evaluate
NewModel ==
    /\ pc = "start"
    /\ entry' = "model"
    /\ \E s \in Splits :
          objects' = <<Arch("Linear", s.dimensions, s.labels, NoHyper),
                       [Arch("Model", 0, 0, NoHyper) EXCEPT !.wraps = 1]>>
    /\ model' = 1
    /\ lightning_model' = 2
    /\ pc' = "steps"
    /\ UNCHANGED <<args, dset, algo, p, error, exitCode, loaded, split, calls,
                   returned, anomaly, context, pending, lastStep>>

StepFrame ==
    /\ pc = "steps"
    /\ UNCHANGED <<pc, entry, args, dset, algo, p, error, exitCode, loaded, split,
                   calls, objects, model, lightning_model, returned, anomaly,
                   context, pending>>

TrainingStep == StepFrame /\ \E b \in Batches : lastStep' = training_step(b)

ValidationStep == StepFrame /\ \E b \in Batches : lastStep' = validation_step(b)

TestStep == StepFrame /\ \E b \in Batches : lastStep' = test_step(b)

(* ---------------------------- specification ---------------------------- *)

Next ==
    \/ ParseArgs
    \/ ResolveDataset
    \/ ResolveAlgorithm
    \/ CallMain
    \/ MainExit
    \/ DirectCall
    \/ TrainTest
    \/ Construct
    \/ Wrap
    \/ MakeTrainer
    \/ MakeTrainLoader
    \/ MakeTestLoader
    \/ EnterContext
    \/ Fit
    \/ ExitContext
    \/ Test
    \/ Return
    \/ NewModel
    \/ TrainingStep
    \/ ValidationStep
    \/ TestStep

Spec == Init /\ [][Next]_vars

(* ------------------------------ properties ----------------------------- *)

\* s and n are the same string up to the case of their letters
CaseEq(s, n) ==
    /\ Len(s) = Len(n)
    /\ \A i \in 1..Len(s) : LowerChar(s[i]) = LowerChar(n[i])

\* s is, in some mix of cases, the name of a member of enum
ValidName(s, enum) == \E n \in Range(enum) : CaseEq(s, n)

MemberFor(s, enum) == CHOOSE n \in Range(enum) : CaseEq(s, n)

\* the positions of the calls of fn
CallsOf(fn) == {i \in 1..Len(calls) : calls[i].fn = fn}

ArchNames == {"Linear", "DNN", "CNN", "Slim", "HighwayNetwork", "ResidualNetwork"}

ConstructorCalls == {i \in 1..Len(calls) : calls[i].fn \in ArchNames}

\* the script is past the statement that resolves the dataset / the algorithm
PastDataset == entry = "main" /\ pc \notin {"start", "resolve_dataset"}

PastAlgorithm == PastDataset /\ dset # <<>> /\ pc # "resolve_algorithm"

\* C1: at the entry point a dataset member name and an algorithm member name,
\* given in any mix of upper and lower case, both resolve, without error, to
\* exactly the members of those names.
C1_ValidNamesResolve ==
    /\ (PastDataset /\ ValidName(args.dataset, Dataset))
          => /\ dset = MemberFor(args.dataset, Dataset)
             /\ ~(error.kind = "KeyError" /\ error.what = "dataset")
    /\ (PastAlgorithm /\ ValidName(args.algorithm, Algorithm))
          => /\ algo = MemberFor(args.algorithm, Algorithm)
             /\ error.kind # "KeyError"

C1_Witness ==
    /\ entry = "main"
    /\ pc = "call"
    /\ args.dataset = MixOf(CIFAR10, {2})
    /\ dset = CIFAR10
    /\ args.algorithm = MixOf(HIGHWAY_NETWORK, 1..Len(HIGHWAY_NETWORK))
    /\ algo = HIGHWAY_NETWORK

\* the run died of the KeyError the script raises for this argument
DiedOfKeyError(what, input, enum) ==
    /\ pc = "exit"
    /\ exitCode = 1
    /\ error = [kind |-> "KeyError", what |-> what, input |-> input,
                names |-> Names(enum)]
    /\ Range(error.names) = Range(enum)

\* C2 as stated: once the script has ended, a dataset argument that is no
\* dataset name has produced the dataset KeyError, and an algorithm argument
\* that is no algorithm name has produced the algorithm KeyError, each naming
\* the valid names and the offending input, with an unsuccessful exit.
C2_Original ==
    (entry = "main" /\ pc = "exit")
       => /\ ~ValidName(args.dataset, Dataset)
                => DiedOfKeyError("dataset", args.dataset, Dataset)
          /\ ~ValidName(args.algorithm, Algorithm)
                => DiedOfKeyError("algorithm", args.algorithm, Algorithm)

\* C2 amended: the dataset is resolved first; an invalid dataset argument
\* always ends the run with the dataset KeyError, and an invalid algorithm
\* argument ends it with the algorithm KeyError when the dataset argument is
\* valid. Either way the run never gets past the resolution.
C2_InvalidNamesFail ==
    /\ (PastDataset /\ ~ValidName(args.dataset, Dataset))
          => DiedOfKeyError("dataset", args.dataset, Dataset)
    /\ (PastDataset /\ pc # "resolve_algorithm"
           /\ ValidName(args.dataset, Dataset) /\ ~ValidName(args.algorithm, Algorithm))
          => DiedOfKeyError("algorithm", args.algorithm, Algorithm)

C2_Witness ==
    /\ DiedOfKeyError("algorithm", <<"d","n","n"," ">>, Algorithm)
    /\ args.dataset = MixOf(MNIST, {1, 2})

\* the construction the documentation gives for each identifier
Documented(a, dimensions, labels) ==
    CASE a = LINEAR -> Arch("Linear", dimensions, labels, NoHyper)
      [] a = DNN -> Arch("DNN", dimensions, labels, [name |-> "num_layers", value |-> 10])
      [] a = CNN -> Arch("CNN", dimensions, labels, NoHyper)
      [] a = SLIM -> Arch("Slim", dimensions, labels, NoHyper)
      [] a = HIGHWAY_NETWORK ->
            Arch("HighwayNetwork", dimensions, labels, [name |-> "num_layers", value |-> 100])
      [] a = RESNET -> Arch("ResidualNetwork", dimensions, labels, [name |-> "n", value |-> 3])

\* C3: for each of the six identifiers train_and_evaluate makes exactly one
\* constructor call, that of the documented architecture with the documented
\* hyperparameters and the split's dimensionality and label count.
C3_DispatchAsDocumented ==
    (entry \in {"main", "call"} /\ p.algo \in Range(Algorithm))
       => /\ \A i \in ConstructorCalls :
                /\ calls[i].fn = Documented(p.algo, split.dimensions, split.labels).cls
                /\ ConstructorCalls = {i}
          /\ model # 0
                => /\ objects[model] = Documented(p.algo, split.dimensions, split.labels)
                   /\ ConstructorCalls # {}

C3_Witness ==
    /\ p.algo = SLIM
    /\ model # 0
    /\ objects[model].cls = "Slim"
    /\ pc = "returned"

\* C4: with an invalid dataset name or an invalid algorithm name the script
\* ends before train_and_evaluate is entered: nothing is loaded, nothing is
\* constructed, and no collaborator is called.
C4_FailsBeforeAnyWork ==
    (entry = "main"
        /\ (~ValidName(args.dataset, Dataset) \/ ~ValidName(args.algorithm, Algorithm)))
       => /\ pc \in {"resolve_dataset", "resolve_algorithm", "exit"}
          /\ pc = "exit" => (exitCode = 1 /\ error.kind = "KeyError")
          /\ calls = <<>>
          /\ objects = <<>>
          /\ loaded.dset = <<>>
          /\ split = NoSplit
          /\ p.algo = <<>>
          /\ model = 0 /\ lightning_model = 0 /\ returned = 0

C4_Witness ==
    /\ entry = "main"
    /\ pc = "exit"
    /\ args.dataset = <<"N","O","T","A","R","E","A","L","S","E","T">>
    /\ ValidName(args.algorithm, Algorithm)
    /\ calls = <<>>

\* C5: a run of the script with valid names in which nothing has raised keeps
\* going until it exits with status 0, and has then called fit exactly once and
\* test exactly once, fit first, both on the one wrapper of the model.
C5_TrainThenTestThenExit ==
    (entry = "main" /\ ValidName(args.dataset, Dataset)
        /\ ValidName(args.algorithm, Algorithm) /\ error.kind = "None")
       => /\ pc # "exit" => ENABLED Next
          /\ pc = "exit"
                => /\ exitCode = 0
                   /\ \E i, j \in 1..Len(calls) :
                         /\ i < j
                         /\ CallsOf("fit") = {i}
                         /\ CallsOf("test") = {j}
                         /\ calls[i].target = lightning_model
                         /\ calls[j].target = lightning_model
                         /\ objects[lightning_model].cls = "Model"
                         /\ objects[lightning_model].wraps = model

C5_Witness ==
    /\ entry = "main"
    /\ pc = "exit"
    /\ exitCode = 0
    /\ Cardinality(CallsOf("fit")) = 1
    /\ Cardinality(CallsOf("test")) = 1

\* what holds once a collaborator's exception has left train_and_evaluate
C6_AfterFailure ==
    error.kind = "External"
       => /\ pc \in {"exit", "raised"}
          /\ entry = "main" => (pc = "exit" /\ exitCode = 1)
          /\ calls # <<>>
          /\ calls[Len(calls)].fn = error.what
          /\ returned = 0
          /\ error.what = "fit" => CallsOf("test") = {}

\* no call is made twice
C6_NoRetry == \A i, j \in 1..Len(calls) : calls[i].fn = calls[j].fn => i = j

\* C6: an exception of a collaborator leaves train_and_evaluate as it was
\* raised: the failing call is the last call made, no call is ever repeated,
\* nothing is returned, and an exception raised by fit becomes the run's error
\* in the very next step, so that test is not called after it.
C6_FailuresPropagate ==
    /\ [](C6_AfterFailure /\ C6_NoRetry)
    /\ [][pending.kind # "None"
            => (error' = pending /\ pc' \in {"exit", "raised"} /\ calls' = calls)]_vars

C6_Witness ==
    /\ error = External("fit")
    /\ pc = "raised"
    /\ CallsOf("test") = {}

\* the metric names of a step's phase
LossName(fn) ==
    CASE fn = "training_step" -> "train_loss"
      [] fn = "validation_step" -> "val_loss"
      [] fn = "test_step" -> "test_loss"

AccName(fn) ==
    CASE fn = "training_step" -> "train_acc"
      [] fn = "validation_step" -> "val_acc"
      [] fn = "test_step" -> "test_acc"

\* the step logged its phase's loss, a negative log-likelihood of log-softmax outputs
LogsLoss(step) ==
    \E i \in 1..Len(step.logged) :
        /\ step.logged[i].name = LossName(step.fn)
        /\ step.logged[i].value.op = "nll_loss"
        /\ step.logged[i].value.input.op = "log_softmax"

\* the step logged its phase's accuracy
LogsAccuracy(step) ==
    \E i \in 1..Len(step.logged) :
        /\ step.logged[i].name = AccName(step.fn)
        /\ step.logged[i].value.op = "mean"

\* C7 as stated: every invocation of training_step, validation_step and
\* test_step logs both a loss and an accuracy for its phase.
C7_Original == lastStep.fn # "" => (LogsLoss(lastStep) /\ LogsAccuracy(lastStep))

\* C7 amended: every step logs its phase's loss, the negative log-likelihood
\* of the log-softmax outputs; validation_step and test_step also log their
\* phase's accuracy, and training_step logs the loss and nothing else.
C7_StepsLog ==
    lastStep.fn # ""
       => /\ LogsLoss(lastStep)
          /\ lastStep.fn \in {"validation_step", "test_step"}
                => (LogsAccuracy(lastStep) /\ Len(lastStep.logged) = 2)
          /\ lastStep.fn = "training_step"
                => (~LogsAccuracy(lastStep) /\ Len(lastStep.logged) = 1)

C7_Witness ==
    /\ lastStep.fn = "training_step"
    /\ Len(lastStep.logged) = 1
    /\ lastStep.logged[1].value.target = <<2, 1>>

\* C8: a run of train_and_evaluate makes at most one constructor call and
\* holds at most one architecture; when it completes it has made exactly one,
\* the wrapper trained and tested wraps that instance, and that instance, not
\* the wrapper, is what is returned.
C8_OneModel ==
    entry \in {"main", "call"}
       => /\ Cardinality(ConstructorCalls) <= 1
          /\ Cardinality({i \in 1..Len(objects) : objects[i].cls # "Model"}) <= 1
          /\ Cardinality({i \in 1..Len(objects) : objects[i].cls = "Model"}) <= 1
          /\ \A i \in CallsOf("fit") \cup CallsOf("test") :
                /\ calls[i].target = lightning_model
                /\ objects[calls[i].target].wraps = model
          /\ lightning_model # 0 => objects[lightning_model].wraps = model
          /\ returned # 0 => pc \in {"returned", "exit"}
          /\ (pc = "returned" \/ (pc = "exit" /\ exitCode = 0))
                => /\ Cardinality(ConstructorCalls) = 1
                   /\ returned = model
                   /\ returned # lightning_model
                   /\ objects[returned].cls \in ArchNames
                   /\ \A i \in ConstructorCalls : calls[i].target = returned
                   /\ CallsOf("fit") # {} /\ CallsOf("test") # {}

C8_Witness ==
    /\ entry = "call"
    /\ pc = "returned"
    /\ returned = 1
    /\ lightning_model = 2

\* C9: in a run of the script anomaly detection is on while fit runs exactly
\* when --debug was given, and is off at every other point of the run: before
\* the with block, after it whether fit returned or raised, and during test.
C9_AnomalyOnlyDuringFit ==
    entry = "main"
       => IF pc \in {"fit", "exit_context"}
          THEN anomaly = args.debug
          ELSE anomaly = FALSE

C9_Witness ==
    /\ entry = "main"
    /\ args.debug
    /\ pc = "exit"
    /\ error = External("fit")
    /\ ~anomaly

\* C10: for an identifier outside the six, train_and_evaluate raises
\* NotImplementedError naming it, after dataset.train_test has returned the
\* splits and before anything else is called or constructed.
C10_NotImplemented ==
    /\ error.kind = "NotImplementedError"
          => /\ p.algo \notin Range(Algorithm)
             /\ error.input = p.algo
             /\ pc = "raised"
             /\ calls = <<[fn |-> "train_test", target |-> 0]>>
             /\ loaded.dset = p.dset
             /\ split \in Splits
             /\ objects = <<>>
             /\ model = 0 /\ lightning_model = 0 /\ returned = 0
    /\ (entry = "call" /\ p.algo \notin Range(Algorithm)
           /\ pc \notin {"train_test", "dispatch"})
          => /\ pc = "raised"
             /\ error \in {NotImplemented(p.algo), External("train_test")}

C10_Witness ==
    /\ error = NotImplemented(UNDISPATCHED)
    /\ split \in Splits
    /\ calls # <<>>

====
